---- MODULE Spec2Model ----
(***************************************************************************)
(* Model of volcanic_terrain_generator.py: TerrainConfig and its           *)
(* validation, VolcanicTerrainGenerator.__init__, generate_terrain with    *)
(* _configure_terrain_parameters and the colour ramp of                    *)
(* _create_volcanic_materials, scatter_assets, _calculate_asset_count,     *)
(* _scatter_single_asset_type, _sample_terrain_properties,                 *)
(* _is_valid_placement and _import_and_place_asset.                        *)
(*                                                                         *)
(* Numbers.  The program computes with floats; the model computes the same *)
(* expressions exactly, on scaled integers:                                *)
(*   - random.random() yields k / RandMod for k in 0 .. RandMod-1;         *)
(*   - a world coordinate c (metres) is held as c * Unit, Unit = 2*RandMod,*)
(*     which makes a + (b - a) * k / RandMod an integer for the a, b of    *)
(*     lines 690-691;                                                      *)
(*   - mesh vertex coordinates are held in half metres (a plane of odd     *)
(*     side has corners at half metres);                                   *)
(*   - density_weight and scale_range are held in tenths;                  *)
(*   - density multipliers are held doubled (Low 0.5 -> 1);                *)
(*   - a vertex normal is held as its inclination to the vertical in whole *)
(*     degrees, so degrees(acos(normal.z)) is that number;                 *)
(*   - the terrain object sits at the origin, unrotated and unscaled       *)
(*     (line 258), so matrix_world maps a vertex to itself.                *)
(***************************************************************************)
EXTENDS Integers, Sequences, FiniteSets, TLC

VARIABLES
    config,                 \* TerrainConfig: the keys of its config dict and its attributes
    mesh,                   \* terrain_object.data.vertices once the terrain exists
    pc,                     \* position of the caller / of scatter_assets
    run,                    \* number of generators constructed so far
    terrain_object,         \* self.terrain_object is not None
    rng,                    \* state of the module-level random generator
    self_scattered_objects, \* self.scattered_objects
    scattered_objects,      \* local list of scatter_assets
    result,                 \* value returned by scatter_assets
    asset_i,                \* index of the for loop over asset_catalog (1-based)
    count,                  \* count returned by _calculate_asset_count
    variation,              \* the draw behind `variation` in _calculate_asset_count
    attempts,               \* locals of _scatter_single_asset_type
    placed,
    scattered,
    valid_samples,          \* history: attempts of this loop whose sample passed the rules
    log,                    \* history: one entry per _scatter_single_asset_type call
    draws,                  \* history: kinds of the random draws of this run, in order
    first_result,           \* history: what the first run returned
    first_terrain,          \* history: whether the first run had a terrain
    output_dir,             \* the file system: whether OUTPUT_DIR exists
    terrain_params,         \* height scale and crater count of _configure_terrain_parameters
    ramp,                   \* the element lists the main colour ramp may hold
    sample                  \* history: the last position tried, its sample and the verdict

vars == << config, mesh, pc, run, terrain_object, rng, self_scattered_objects,
           scattered_objects, result, asset_i, count, variation, attempts,
           placed, scattered, valid_samples, log, draws, first_result,
           first_terrain, output_dir, terrain_params, ramp, sample >>

----------------------------------------------------------------------------
(* Bounds of the model *)

RandMod == 16       \* random.random() takes the values k / RandMod
RngPeriod == 64     \* number of states of the generator
NumSeeds == 2       \* RNG_SEED ranges over 0 .. NumSeeds-1
MaxRuns == 2        \* generators constructed one after the other

(* Program constants *)

MARGIN == 5             \* edge margin of a candidate position
ATTEMPT_FACTOR == 3     \* max_attempts = count * 3
BASE_PER_AREA == 15     \* instances per reference area
AREA_REF == 10000       \* reference area, 100 x 100 m
DIST_TOL == 5           \* distance_to_nearest tolerance
DEFAULT_SLOPE_MAX == 45
VAR_LO_TENTHS == 8      \* random.uniform(0.8, 1.2)
VAR_HI_TENTHS == 12
HEIGHT_MIN == 10        \* height_scale = max(10, ...)
HEIGHT_DEN == 40000     \* 0.00005 * density_mult = (2 * density_mult) / 40000
CRATER_MIN == 1         \* max(1, int(...))
CRATER_DEN == 250000    \* 0.000008 * density_mult = (2 * density_mult) / 250000

DefaultHeightRange == << 0, 1000 >>

Unit == 2 * RandMod

Max(a, b) == IF a >= b THEN a ELSE b

\* int(n / d) of Python for d > 0: truncation toward zero
TruncDiv(n, d) == IF n >= 0 THEN n \div d ELSE -((-n) \div d)

----------------------------------------------------------------------------
(* The random module: seed() fixes the state, every random() advances it *)

\* (variant: the seed depends on what the process has placed so far)
SeedPerGenerator(s) == (s + Len(self_scattered_objects)) % RngPeriod

Seed(s) == s % RngPeriod

NextRand(state) == (5 * state + 3) % RngPeriod

\* the k with random() = k / RandMod, read off the state reached
RandomK(state) == (state * RandMod) \div RngPeriod

\* random.uniform(a, b) = a + (b - a) * random(), times RandMod
UniformTimesMod(a, b, k) == a * RandMod + (b - a) * k

----------------------------------------------------------------------------
(* The inputs: map sizes, density presets, asset catalogs, files, meshes *)

MapSizes == { << 100, 100 >>, << 40, 40 >>, << 6, 6 >> }

DensityPresets == { "Low", "Med", "High" }

\* What the import collaborator finds behind a file_path:
\*   "missing"  os.path.exists is False
\*   "raises"   the file exists, bpy.ops.import_scene.gltf raises
\*   "empty"    the import runs and selects no object
\*   "ok"       the import selects an object
FileStatus(path) ==
    CASE path = "gone.glb"   -> "missing"
      [] path = "broken.glb" -> "raises"
      [] path = "empty.glb"  -> "empty"
      [] OTHER               -> "ok"

Bush == [ file_path |-> "latt-bush.glb", type |-> "vegetation",
          scale_range |-> << 8, 12 >>, density_weight |-> 10,
          height_range |-> << 2, 12 >>, slope_max |-> 30 ]

Stump == [ file_path |-> "latt-tree-stump.glb", type |-> "rock_formation",
           scale_range |-> << 7, 13 >>, density_weight |-> 8 ]

Anywhere == [ file_path |-> "any.glb", type |-> "prop",
              scale_range |-> << 10, 10 >>, density_weight |-> 10,
              height_range |-> << 0, 1000 >>, slope_max |-> 90 ]

Dense == [ file_path |-> "grass.glb", type |-> "vegetation",
           scale_range |-> << 5, 20 >>, density_weight |-> 15,
           height_range |-> << 0, 1000 >>, slope_max |-> 90 ]

FlatOnly == [ file_path |-> "slab.glb", type |-> "structure",
              scale_range |-> << 10, 15 >>, density_weight |-> 10,
              height_range |-> << 0, 1000 >>, slope_max |-> 0 ]

Gone == [ file_path |-> "gone.glb", type |-> "tree",
          scale_range |-> << 9, 11 >>, density_weight |-> 7 ]

Broken == [ file_path |-> "broken.glb", type |-> "tree",
            scale_range |-> << 9, 11 >>, density_weight |-> 10,
            height_range |-> << 0, 1000 >>, slope_max |-> 90 ]

Empty == [ file_path |-> "empty.glb", type |-> "tree",
           scale_range |-> << 9, 11 >>, density_weight |-> 10,
           height_range |-> << 0, 1000 >>, slope_max |-> 90 ]

Catalogs == { << >>, << Anywhere >>, << Bush, Stump >>, << FlatOnly, Anywhere >>,
              << Gone, Broken, Bush >>, << Empty, Dense >> }

\* bpy.ops.mesh.primitive_plane_add(size = max(size_x, size_y)): the four
\* corners of a square centred at the origin, in half metres, flat
BasePlane(map_size) ==
    LET s == Max(map_size[1], map_size[2])
    IN  << [ x |-> -s, y |-> -s, z |-> 0, normal |-> 0 ],
           [ x |->  s, y |-> -s, z |-> 0, normal |-> 0 ],
           [ x |-> -s, y |->  s, z |-> 0, normal |-> 0 ],
           [ x |->  s, y |->  s, z |-> 0, normal |-> 0 ] >>

\* A mesh with a vertex every `step` metres, row by row; `kind` shapes
\* heights and normals
GridMesh(map_size, step, kind) ==
    LET nx == (map_size[1] \div 2) \div step
        ny == (map_size[2] \div 2) \div step
        wx == 2 * nx + 1
        wy == 2 * ny + 1
        vertex(j) ==
            LET ix == (j - 1) % wx
                iy == (j - 1) \div wx
            IN  [ x |-> 2 * step * (ix - nx),
                  y |-> 2 * step * (iy - ny),
                  z |-> CASE kind = "hills" -> ((3 * ix + 5 * iy) % 7) * 3 - 2
                          [] OTHER          -> 5,
                  normal |-> CASE kind = "hills" -> ((ix + 2 * iy) % 4) * 15
                               [] kind = "steep" -> 10 + ((ix + iy) % 3) * 20
                               [] OTHER          -> 0 ]
    IN  [ j \in 1 .. (wx * wy) |-> vertex(j) ]

\* the meshes tried for a map: the base plane, and grids fine enough to put
\* a vertex within the tolerance of every position (small maps) or coarse
\* enough to leave gaps (large maps)
Meshes(map_size) ==
    LET step == IF Max(map_size[1], map_size[2]) > 50 THEN 20 ELSE 7
    IN  { BasePlane(map_size), GridMesh(map_size, step, "flat"),
          GridMesh(map_size, step, "hills"), GridMesh(map_size, step, "steep") }

----------------------------------------------------------------------------
(* _calculate_asset_count *)

\* density_presets.get(DENSITY_PRESET, 1.0), doubled
DensityTimes2(preset) ==
    CASE preset = "Low"  -> 1
      [] preset = "Med"  -> 2
      [] preset = "High" -> 4
      [] OTHER           -> 2

MapArea(map_size) == map_size[1] * map_size[2]

\* asset_info.get('density_weight', 1.0), in tenths
DensityWeight(asset) ==
    IF "density_weight" \in DOMAIN asset THEN asset.density_weight ELSE 10

\* base_count = max(1, int(15 * base_density * area_factor * density_weight))
BaseCount(preset, map_size, asset) ==
    Max(1, TruncDiv(BASE_PER_AREA * DensityTimes2(preset) * MapArea(map_size)
                        * DensityWeight(asset),
                    2 * AREA_REF * 10))

\* round half to even of n / d, for n >= 0 and d > 0
RoundDiv(n, d) ==
    LET q == n \div d
        r == n % d
    IN  IF 2 * r > d \/ (2 * r = d /\ q % 2 = 1) THEN q + 1 ELSE q

\* (variant: one rounding of the whole product instead of two truncations;
\* the product is exactly divisible by 5, the variation by 4)
CalculateAssetCountRounded(preset, map_size, asset, k) ==
    Max(1, RoundDiv(((BASE_PER_AREA * DensityTimes2(preset) * MapArea(map_size)
                          * DensityWeight(asset)) \div 5)
                        * (UniformTimesMod(VAR_LO_TENTHS, VAR_HI_TENTHS, k) \div 4),
                    10 * AREA_REF * RandMod))

\* (variant: the variation is drawn from [0.4, 1.6])
CalculateAssetCountWideVariation(preset, map_size, asset, k) ==
    Max(1, TruncDiv(Max(1, TruncDiv(BASE_PER_AREA * DensityTimes2(preset)
                                        * MapArea(map_size) * DensityWeight(asset),
                                    2 * AREA_REF * 10))
                        * UniformTimesMod(VAR_LO_TENTHS \div 2, 2 * VAR_LO_TENTHS, k),
                    10 * RandMod))

\* final_count = max(1, int(base_count * variation)),
\* variation = random.uniform(0.8, 1.2) drawn as k / RandMod
CalculateAssetCount(preset, map_size, asset, k) ==
    Max(1, TruncDiv(BaseCount(preset, map_size, asset)
                        * UniformTimesMod(VAR_LO_TENTHS, VAR_HI_TENTHS, k),
                    10 * RandMod))

----------------------------------------------------------------------------
(* _sample_terrain_properties *)

\* (variant: no margin, random.uniform(-size/2, size/2))
PositionNoMargin(size, k) == UniformTimesMod(- size, size, k)

\* random.uniform(-size/2 + 5, size/2 - 5), times Unit
Position(size, k) == UniformTimesMod(2 * MARGIN - size, size - 2 * MARGIN, k)

\* squared horizontal distance of vertex v to (X, Y), in Unit^2
Dist2(v, X, Y) ==
    (v.x * RandMod - X) * (v.x * RandMod - X)
        + (v.y * RandMod - Y) * (v.y * RandMod - Y)

\* (variant: `<=`, the last of the equidistant vertices wins)
RECURSIVE ClosestVertexLastOnTie(_, _, _, _)
ClosestVertexLastOnTie(m, X, Y, n) ==
    IF n = 0 THEN 0
    ELSE LET best == ClosestVertexLastOnTie(m, X, Y, n - 1)
         IN  IF best = 0 \/ Dist2(m[n], X, Y) <= Dist2(m[best], X, Y)
             THEN n ELSE best

\* the loop over mesh.vertices, after its first n iterations: a vertex
\* replaces the closest one so far only when it is strictly closer; 0 stands
\* for no vertex seen (closest_distance = inf)
RECURSIVE ClosestVertex(_, _, _, _)
ClosestVertex(m, X, Y, n) ==
    IF n = 0 THEN 0
    ELSE LET best == ClosestVertex(m, X, Y, n - 1)
         IN  IF best = 0 \/ Dist2(m[n], X, Y) < Dist2(m[best], X, Y)
             THEN n ELSE best

\* the dict returned; `vertex` = 0 stands for closest_distance = inf with
\* the initial closest_height 0.0 and closest_normal (0, 0, 1)
SampleTerrainProperties(m, X, Y) ==
    LET b == ClosestVertex(m, X, Y, Len(m))
    IN  IF b = 0
        THEN [ vertex |-> 0, height |-> 0, slope |-> 0, normal |-> 0, dist2 |-> 0 ]
        ELSE [ vertex |-> b, height |-> m[b].z, slope |-> m[b].normal,
               normal |-> m[b].normal, dist2 |-> Dist2(m[b], X, Y) ]

----------------------------------------------------------------------------
(* _is_valid_placement *)

\* asset_info.get('height_range', [0, 1000])
HeightRange(asset) ==
    IF "height_range" \in DOMAIN asset THEN asset.height_range ELSE DefaultHeightRange

\* (variant: asset_info.get('slope_max') or 45, which drops a slope_max of 0)
SlopeMaxOrDefault(asset) ==
    IF "slope_max" \in DOMAIN asset /\ asset.slope_max # 0
    THEN asset.slope_max ELSE DEFAULT_SLOPE_MAX

\* asset_info.get('slope_max', 45)
SlopeMax(asset) ==
    IF "slope_max" \in DOMAIN asset THEN asset.slope_max ELSE DEFAULT_SLOPE_MAX

TooFar(terrain_data) ==
    \/ terrain_data.vertex = 0
    \/ terrain_data.dist2 > (DIST_TOL * Unit) * (DIST_TOL * Unit)

\* (variant: the slope check is missing)
IsValidPlacementNoSlope(terrain_data, asset) ==
    /\ ~ (\/ terrain_data.height < HeightRange(asset)[1]
          \/ terrain_data.height > HeightRange(asset)[2])
    /\ ~ TooFar(terrain_data)

\* (variant: a slope equal to slope_max is refused)
IsValidPlacementSlopeStrict(terrain_data, asset) ==
    /\ ~ (\/ terrain_data.height < HeightRange(asset)[1]
          \/ terrain_data.height > HeightRange(asset)[2])
    /\ ~ (terrain_data.slope >= SlopeMax(asset))
    /\ ~ TooFar(terrain_data)

IsValidPlacement(terrain_data, asset) ==
    /\ ~ (\/ terrain_data.height < HeightRange(asset)[1]
          \/ terrain_data.height > HeightRange(asset)[2])
    /\ ~ (terrain_data.slope > SlopeMax(asset))
    /\ ~ TooFar(terrain_data)

----------------------------------------------------------------------------
(* _import_and_place_asset *)

\* os.path.exists(asset_path)
FileExists(path) == FileStatus(path) # "missing"

\* (variant: an import that selected nothing still yields an object)
ImportSucceedsUnlessRaised(path) == FileStatus(path) \in { "ok", "empty" }

\* the import returns an object: gltf did not raise and selected something
ImportSucceeds(path) == FileStatus(path) = "ok"

\* the object returned: location, the normal it is aligned to, the random
\* yaw (in turns, times RandMod), the scale (in tenths, times RandMod) and
\* its name; `asset`, `attempt` and `slope` record where it came from
PlacedObject(i, asset, X, Y, terrain_data, kYaw, kScale, attempt, nameIndex) ==
    [ asset      |-> i,
      type       |-> asset.type,
      x          |-> X,
      y          |-> Y,
      z          |-> terrain_data.height,
      normal     |-> terrain_data.normal,
      yaw        |-> UniformTimesMod(0, 1, kYaw),
      scale      |-> UniformTimesMod(asset.scale_range[1], asset.scale_range[2], kScale),
      name_index |-> nameIndex,
      attempt    |-> attempt,
      slope      |-> terrain_data.slope ]

----------------------------------------------------------------------------
(* TerrainConfig._get_style_preset *)

\* The two entries of `presets`; a colour component, a roughness and a
\* wetness are held in hundredths
VolcanicAshfall ==
    [ base_colors |-> [ lava_rock      |-> << 15, 10, 8, 100 >>,
                        weathered_rock |-> << 25, 18, 15, 100 >>,
                        ash_deposits   |-> << 35, 30, 25, 100 >>,
                        fresh_lava     |-> << 80, 20, 10, 100 >> ],
      roughness_ranges |-> [ smooth_lava |-> << 10, 30 >>,
                             rough_rock  |-> << 80, 95 >>,
                             ash_surface |-> << 60, 80 >> ],
      wetness_logic |-> [ low_areas |-> 40, slopes |-> 10, peaks |-> 0 ],
      emission_strength |-> 2,
      height_zones |-> [ lava_flow    |-> << 0, 30 >>,
                         rocky_slopes |-> << 30, 70 >>,
                         ash_peaks    |-> << 70, 100 >> ] ]

RealisticVolcanic ==
    [ base_colors |-> [ basalt    |-> << 12, 8, 6, 100 >>,
                        scoria    |-> << 30, 15, 10, 100 >>,
                        weathered |-> << 40, 35, 25, 100 >> ],
      roughness_ranges |-> [ polished_rock |-> << 20, 40 >>,
                             rough_basalt  |-> << 85, 95 >> ],
      wetness_logic |-> [ uniform |-> 10 ],
      emission_strength |-> 0,
      height_zones |-> [ flows  |-> << 0, 40 >>,
                         slopes |-> << 40, 100 >> ] ]

\* the keys of `presets`
PresetNames == { "volcanic_ashfall", "realistic_volcanic" }

\* presets[preset_name], for a name in PresetNames
GetStylePreset(preset_name) ==
    IF preset_name = "volcanic_ashfall" THEN VolcanicAshfall ELSE RealisticVolcanic

----------------------------------------------------------------------------
(* _configure_terrain_parameters *)

\* (variant: the scale is not clamped from below)
HeightScaleUnclamped(preset, map_size) ==
    MapArea(map_size) * DensityTimes2(preset)

\* height_scale = max(10, map_area * 0.00005 * density_mult), times HEIGHT_DEN
HeightScale(preset, map_size) ==
    Max(HEIGHT_MIN * HEIGHT_DEN, MapArea(map_size) * DensityTimes2(preset))

\* max(1, int(map_area * 0.000008 * density_mult))
CraterCount(preset, map_size) ==
    Max(CRATER_MIN, TruncDiv(MapArea(map_size) * DensityTimes2(preset), CRATER_DEN))

----------------------------------------------------------------------------
(* _create_volcanic_materials *)

\* The key whose lookup raises KeyError, in the order of the lookups of
\* lines 466-531; "none" when every lookup succeeds
MissingStyleKey(style) ==
    CASE "height_zones" \notin DOMAIN style -> "height_zones"
      [] "base_colors" \notin DOMAIN style -> "base_colors"
      [] "lava_rock" \notin DOMAIN style.base_colors -> "lava_rock"
      [] "weathered_rock" \notin DOMAIN style.base_colors -> "weathered_rock"
      [] "ash_deposits" \notin DOMAIN style.base_colors -> "ash_deposits"
      [] "roughness_ranges" \notin DOMAIN style -> "roughness_ranges"
      [] "rough_rock" \notin DOMAIN style.roughness_ranges -> "rough_rock"
      [] "smooth_lava" \notin DOMAIN style.roughness_ranges -> "smooth_lava"
      [] "wetness_logic" \notin DOMAIN style -> "wetness_logic"
      [] "low_areas" \in DOMAIN style.wetness_logic
             /\ "peaks" \notin DOMAIN style.wetness_logic -> "peaks"
      [] OTHER -> "none"

\* color_ramp.elements of a new ShaderNodeValToRGB: black at 0, white at 1;
\* positions in hundredths
InitialRamp ==
    << [ position |-> 0,   color |-> << 0, 0, 0, 100 >> ],
       [ position |-> 100, color |-> << 100, 100, 100, 100 >> ] >>

IsOrdered(elements) ==
    \A i \in 1 .. (Len(elements) - 1) :
        elements[i].position <= elements[i + 1].position

\* the orders a sort by position may leave the stops in: stops at the same
\* position come in any order
SortedOrders(elements) ==
    LET n == Len(elements)
        perms == { p \in [ 1 .. n -> 1 .. n ] : \A i, j \in 1 .. n : i # j => p[i] # p[j] }
    IN  { s \in { [ i \in 1 .. n |-> elements[p[i]] ] : p \in perms } : IsOrdered(s) }

\* elements.new(position): the stop is added and the stops are sorted; its
\* colour is written by the caller before it is read
ElementsNew(elements, position) ==
    SortedOrders(Append(elements, [ position |-> position, color |-> << >> ]))

\* elements[index].position = position (index counted from 0): the stop
\* moves; the ramp re-sorts its stops, or leaves them where they are until
\* the next sort, so both are outcomes
SetPosition(elements, index, position) ==
    LET moved == [ elements EXCEPT ![index + 1].position = position ]
    IN  { moved } \cup SortedOrders(moved)

\* elements[index].color = color (index counted from 0)
SetColor(elements, index, color) ==
    [ elements EXCEPT ![index + 1].color = color ]

\* lines 477-478: the first stop
RampAfterLavaRock(colors) ==
    { SetColor(e, 0, colors.lava_rock) : e \in SetPosition(InitialRamp, 0, 0) }

\* lines 481-482: a stop at 0.4
RampAfterWeatheredRock(colors) ==
    { SetColor(e, 1, colors.weathered_rock) :
          e \in UNION { ElementsNew(r, 40) : r \in RampAfterLavaRock(colors) } }

\* lines 484-485: a stop at 0.7
RampAfterAshDeposits(colors) ==
    { SetColor(e, 2, colors.ash_deposits) :
          e \in UNION { ElementsNew(r, 70) : r \in RampAfterWeatheredRock(colors) } }

\* lines 477-488 on the main colour ramp: every element list the ramp may
\* hold afterwards
ConfigureColorRamp(colors) ==
    LET top == IF "fresh_lava" \in DOMAIN colors THEN colors.fresh_lava
               ELSE colors.lava_rock
    IN  { SetColor(e, 1, top) :
              e \in UNION { SetPosition(r, 1, 100) : r \in RampAfterAshDeposits(colors) } }

\* the ramp when the lookup of `key` raises KeyError
RampAtKeyError(style, key) ==
    CASE key \in { "height_zones", "base_colors" } -> { }
      [] key = "lava_rock" -> SetPosition(InitialRamp, 0, 0)
      [] key = "weathered_rock" ->
             UNION { ElementsNew(r, 40) : r \in RampAfterLavaRock(style.base_colors) }
      [] key = "ash_deposits" ->
             UNION { ElementsNew(r, 70) : r \in RampAfterWeatheredRock(style.base_colors) }
      [] OTHER -> ConfigureColorRamp(style.base_colors)

----------------------------------------------------------------------------
(* State machine *)

\* max_attempts = count * 3
MaxAttempts(c) == c * ATTEMPT_FACTOR

\* (variants of the loop condition: placed <= count; no test of placed;
\* attempts <= max_attempts)
LoopContinuesPlacedInclusive(p, c, a) == p <= c /\ a < MaxAttempts(c)

LoopContinuesAttemptsOnly(p, c, a) == a < MaxAttempts(c)

LoopContinuesAttemptsInclusive(p, c, a) == p < c /\ a <= MaxAttempts(c)

\* the condition of the while loop
LoopContinues(p, c, a) == p < c /\ a < MaxAttempts(c)

\* (variant: the yaw and the scale are drawn for every attempt)
AttemptDrawsAlwaysFour(imported) == << "x", "y", "yaw", "scale" >>

\* the draws of one iteration of the while loop: x and y (lines 690-691),
\* then yaw and scale (lines 799, 803) once the import has returned an object
AttemptDraws(imported) ==
    IF imported THEN << "x", "y", "yaw", "scale" >> ELSE << "x", "y" >>

\* no position tried yet
NoSample == [ kind |-> "none" ]

\* the position (x, y) tried, what _sample_terrain_properties returned for
\* it and what _is_valid_placement answered
Sampled(X, Y, terrain_data, valid) ==
    [ kind |-> "sampled", x |-> X, y |-> Y, data |-> terrain_data, valid |-> valid ]

\* before generate_terrain
NoParams == [ height_scale |-> 0, crater_count |-> 0 ]

\* scattered.append(asset_obj)
Append1(list, obj) == Append(list, obj)

\* (variant: the new objects go in front)
ExtendFront(list, more) == more \o list

\* scattered_objects.extend(asset_objects)
Extend(list, more) == list \o more

CurrentAsset == config.asset_catalog[asset_i]

\* TerrainConfig(config_dict) with a preset style, followed by
\* VolcanicTerrainGenerator(config): the output directory exists, no terrain
\* yet, no scattered objects, random.seed(RNG_SEED)
Init ==
    /\ config \in [ RNG_SEED : 0 .. (NumSeeds - 1),
                    map_size : MapSizes,
                    DENSITY_PRESET : DensityPresets,
                    asset_catalog : Catalogs,
                    style_profile : { GetStylePreset("volcanic_ashfall") } ]
    /\ mesh \in Meshes(config.map_size)
    /\ pc = "constructed"
    /\ run = 1
    /\ terrain_object = FALSE
    /\ self_scattered_objects = << >>
    /\ rng = Seed(config.RNG_SEED)
    /\ scattered_objects = << >>
    /\ result = << >>
    /\ asset_i = 0
    /\ count = 0
    /\ variation = 0
    /\ attempts = 0
    /\ placed = 0
    /\ scattered = << >>
    /\ valid_samples = 0
    /\ log = << >>
    /\ draws = << >>
    /\ first_result = << >>
    /\ first_terrain = FALSE
    /\ output_dir = "created"
    /\ terrain_params = NoParams
    /\ ramp = { }
    /\ sample = NoSample

\* generate_terrain: sets self.terrain_object, computes the terrain
\* parameters and configures the colour ramp of the material; draws nothing
\* from random
GenerateTerrain ==
    /\ pc = "constructed"
    /\ MissingStyleKey(config.style_profile) = "none"
    /\ terrain_object' = TRUE
    /\ terrain_params' = [ height_scale |-> HeightScale(config.DENSITY_PRESET,
                                                         config.map_size),
                           crater_count |-> CraterCount(config.DENSITY_PRESET,
                                                         config.map_size) ]
    /\ ramp' = ConfigureColorRamp(config.style_profile.base_colors)
    /\ pc' = "terrain"
    /\ UNCHANGED << config, mesh, run, rng, self_scattered_objects,
                    scattered_objects, result, asset_i, count, variation,
                    attempts, placed, scattered, valid_samples, log, draws,
                    first_result, first_terrain, output_dir, sample >>

\* scatter_assets without a terrain object: logs an error and returns []
ScatterWithoutTerrain ==
    /\ pc = "constructed"
    /\ ~ terrain_object
    /\ result' = << >>
    /\ pc' = "returned"
    /\ UNCHANGED << config, mesh, run, terrain_object, rng,
                    self_scattered_objects, scattered_objects, asset_i, count,
                    variation, attempts, placed, scattered, valid_samples, log,
                    draws, first_result, first_terrain, output_dir,
                    terrain_params, ramp, sample >>

\* scatter_assets, up to the for loop
ScatterAssets ==
    /\ pc = "terrain"
    /\ terrain_object
    /\ scattered_objects' = << >>
    /\ asset_i' = 1
    /\ pc' = "for"
    /\ UNCHANGED << config, mesh, run, terrain_object, rng,
                    self_scattered_objects, result, count, variation, attempts,
                    placed, scattered, valid_samples, log, draws, first_result,
                    first_terrain, output_dir,
                    terrain_params, ramp, sample >>

\* one iteration of the for loop whose asset file does not exist: the count
\* is calculated, _scatter_single_asset_type warns and returns []
AssetNotFound ==
    /\ pc = "for"
    /\ asset_i <= Len(config.asset_catalog)
    /\ LET r == NextRand(rng)
           c == CalculateAssetCount(config.DENSITY_PRESET, config.map_size,
                                    CurrentAsset, RandomK(r))
       IN  /\ ~ FileExists(CurrentAsset.file_path)
           /\ rng' = r
           /\ variation' = RandomK(r)
           /\ count' = c
           /\ draws' = Append(draws, "count")
           /\ scattered_objects' = Extend(scattered_objects, << >>)
           /\ log' = Append(log, [ kind |-> "not_found", asset |-> asset_i,
                                   count |-> c, attempts |-> 0, placed |-> 0,
                                   valid_samples |-> 0, returned |-> << >> ])
    /\ asset_i' = asset_i + 1
    /\ UNCHANGED << config, mesh, pc, run, terrain_object,
                    self_scattered_objects, result, attempts, placed, scattered,
                    valid_samples, first_result, first_terrain, output_dir,
                    terrain_params, ramp, sample >>

\* one iteration of the for loop, up to the while loop of
\* _scatter_single_asset_type
AssetStart ==
    /\ pc = "for"
    /\ asset_i <= Len(config.asset_catalog)
    /\ LET r == NextRand(rng)
       IN  /\ FileExists(CurrentAsset.file_path)
           /\ rng' = r
           /\ variation' = RandomK(r)
           /\ count' = CalculateAssetCount(config.DENSITY_PRESET, config.map_size,
                                           CurrentAsset, RandomK(r))
           /\ draws' = Append(draws, "count")
    /\ scattered' = << >>
    /\ attempts' = 0
    /\ placed' = 0
    /\ valid_samples' = 0
    /\ pc' = "while"
    /\ UNCHANGED << config, mesh, run, terrain_object, self_scattered_objects,
                    scattered_objects, result, asset_i, log, first_result,
                    first_terrain, output_dir,
                    terrain_params, ramp, sample >>

\* one iteration of the while loop whose sample fails _is_valid_placement
\* (with a terrain object the sample is a non-empty dict, so the test of
\* line 696 never skips the iteration)
AttemptRejected ==
    /\ pc = "while"
    /\ LoopContinues(placed, count, attempts)
    /\ LET rx == NextRand(rng)
           ry == NextRand(rx)
           X  == Position(config.map_size[1], RandomK(rx))
           Y  == Position(config.map_size[2], RandomK(ry))
           terrain_data == SampleTerrainProperties(mesh, X, Y)
       IN  /\ ~ IsValidPlacement(terrain_data, CurrentAsset)
           /\ sample' = Sampled(X, Y, terrain_data, FALSE)
           /\ rng' = ry
    /\ attempts' = attempts + 1
    /\ draws' = draws \o AttemptDraws(FALSE)
    /\ UNCHANGED << config, mesh, pc, run, terrain_object,
                    self_scattered_objects, scattered_objects, result, asset_i,
                    count, variation, placed, scattered, valid_samples, log,
                    first_result, first_terrain, output_dir,
                    terrain_params, ramp >>

\* one iteration whose sample is valid and whose import returns None: the
\* import raises (caught at line 812) or selects nothing
AttemptImportFailed ==
    /\ pc = "while"
    /\ LoopContinues(placed, count, attempts)
    /\ LET rx == NextRand(rng)
           ry == NextRand(rx)
           X  == Position(config.map_size[1], RandomK(rx))
           Y  == Position(config.map_size[2], RandomK(ry))
           terrain_data == SampleTerrainProperties(mesh, X, Y)
       IN  /\ IsValidPlacement(terrain_data, CurrentAsset)
           /\ ~ ImportSucceeds(CurrentAsset.file_path)
           /\ sample' = Sampled(X, Y, terrain_data, TRUE)
           /\ rng' = ry
    /\ attempts' = attempts + 1
    /\ valid_samples' = valid_samples + 1
    /\ draws' = draws \o AttemptDraws(FALSE)
    /\ UNCHANGED << config, mesh, pc, run, terrain_object,
                    self_scattered_objects, scattered_objects, result, asset_i,
                    count, variation, placed, scattered, log, first_result,
                    first_terrain, output_dir,
                    terrain_params, ramp >>

\* one iteration whose sample is valid and whose import returns the object
AttemptPlaced ==
    /\ pc = "while"
    /\ LoopContinues(placed, count, attempts)
    /\ LET rx == NextRand(rng)
           ry == NextRand(rx)
           ryaw == NextRand(ry)
           rscale == NextRand(ryaw)
           X  == Position(config.map_size[1], RandomK(rx))
           Y  == Position(config.map_size[2], RandomK(ry))
           terrain_data == SampleTerrainProperties(mesh, X, Y)
       IN  /\ IsValidPlacement(terrain_data, CurrentAsset)
           /\ ImportSucceeds(CurrentAsset.file_path)
           /\ sample' = Sampled(X, Y, terrain_data, TRUE)
           /\ rng' = rscale
           /\ scattered' = Append1(scattered,
                  PlacedObject(asset_i, CurrentAsset, X, Y, terrain_data,
                               RandomK(ryaw), RandomK(rscale), attempts + 1,
                               Len(self_scattered_objects)))
    /\ attempts' = attempts + 1
    /\ placed' = placed + 1
    /\ valid_samples' = valid_samples + 1
    /\ draws' = draws \o AttemptDraws(TRUE)
    /\ UNCHANGED << config, mesh, pc, run, terrain_object,
                    self_scattered_objects, scattered_objects, result, asset_i,
                    count, variation, log, first_result, first_terrain, output_dir,
                    terrain_params, ramp >>

\* the while loop ends: _scatter_single_asset_type logs and returns
\* `scattered`, scatter_assets extends its list and goes to the next asset
AssetReturn ==
    /\ pc = "while"
    /\ ~ LoopContinues(placed, count, attempts)
    /\ scattered_objects' = Extend(scattered_objects, scattered)
    /\ log' = Append(log, [ kind |-> "placed", asset |-> asset_i,
                            count |-> count, attempts |-> attempts,
                            placed |-> placed, valid_samples |-> valid_samples,
                            returned |-> scattered ])
    /\ asset_i' = asset_i + 1
    /\ pc' = "for"
    /\ UNCHANGED << config, mesh, run, terrain_object, rng,
                    self_scattered_objects, result, count, variation, attempts,
                    placed, scattered, valid_samples, draws, first_result,
                    first_terrain, output_dir,
                    terrain_params, ramp, sample >>

\* the for loop is over: self.scattered_objects is set and returned
ScatterReturn ==
    /\ pc = "for"
    /\ asset_i > Len(config.asset_catalog)
    /\ self_scattered_objects' = scattered_objects
    /\ result' = scattered_objects
    /\ pc' = "returned"
    /\ UNCHANGED << config, mesh, run, terrain_object, rng, scattered_objects,
                    asset_i, count, variation, attempts, placed, scattered,
                    valid_samples, log, draws, first_result, first_terrain, output_dir,
                    terrain_params, ramp, sample >>

\* a second run: VolcanicTerrainGenerator(config) is constructed again from
\* the same TerrainConfig
Construct ==
    /\ pc = "returned"
    /\ run < MaxRuns
    /\ run' = run + 1
    /\ first_result' = result
    /\ first_terrain' = terrain_object
    /\ terrain_object' = FALSE
    /\ self_scattered_objects' = << >>
    /\ rng' = Seed(config.RNG_SEED)
    /\ pc' = "constructed"
    /\ scattered_objects' = << >>
    /\ result' = << >>
    /\ asset_i' = 0
    /\ count' = 0
    /\ variation' = 0
    /\ attempts' = 0
    /\ placed' = 0
    /\ scattered' = << >>
    /\ valid_samples' = 0
    /\ log' = << >>
    /\ draws' = << >>
    /\ terrain_params' = NoParams
    /\ ramp' = { }
    /\ sample' = NoSample
    /\ UNCHANGED << config, mesh, output_dir >>

Next ==
    \/ GenerateTerrain
    \/ ScatterWithoutTerrain
    \/ ScatterAssets
    \/ AssetNotFound
    \/ AssetStart
    \/ AttemptRejected
    \/ AttemptImportFailed
    \/ AttemptPlaced
    \/ AssetReturn
    \/ ScatterReturn
    \/ Construct

Spec == Init /\ [][Next]_vars

----------------------------------------------------------------------------
(* _calculate_asset_count on its own: every input, every draw *)

Weightless == [ file_path |-> "dust.glb", type |-> "prop",
                scale_range |-> << 10, 10 >>, density_weight |-> 0 ]

Heavy == [ file_path |-> "boulder.glb", type |-> "rock_formation",
           scale_range |-> << 10, 30 >>, density_weight |-> 32 ]

CountAssets == { Bush, Stump, Anywhere, Dense, Gone, Weightless, Heavy }

CountMapSizes == MapSizes \cup { << 20, 12 >>, << 200, 100 >>, << 1, 1 >>,
                                 << 0, 100 >>, << -5, 10 >> }

InitCount ==
    /\ \E m \in CountMapSizes, d \in DensityPresets, a \in CountAssets :
           config = [ RNG_SEED |-> 0, map_size |-> m, DENSITY_PRESET |-> d,
                      asset_catalog |-> << a >>,
                      style_profile |-> GetStylePreset("volcanic_ashfall") ]
    /\ mesh = << >>
    /\ pc = "calculate"
    /\ run = 1
    /\ terrain_object = FALSE
    /\ self_scattered_objects = << >>
    /\ rng = Seed(config.RNG_SEED)
    /\ scattered_objects = << >>
    /\ result = << >>
    /\ asset_i = 1
    /\ count = 0
    /\ variation = 0
    /\ attempts = 0
    /\ placed = 0
    /\ scattered = << >>
    /\ valid_samples = 0
    /\ log = << >>
    /\ draws = << >>
    /\ first_result = << >>
    /\ first_terrain = FALSE
    /\ output_dir = "created"
    /\ terrain_params = NoParams
    /\ ramp = { }
    /\ sample = NoSample

\* _calculate_asset_count(asset_info) with random.random() = k / RandMod
CalculateCount ==
    /\ pc = "calculate"
    /\ \E k \in 0 .. (RandMod - 1) :
           /\ variation' = k
           /\ count' = CalculateAssetCount(config.DENSITY_PRESET, config.map_size,
                                           CurrentAsset, k)
    /\ pc' = "calculated"
    /\ UNCHANGED << config, mesh, run, terrain_object, rng,
                    self_scattered_objects, scattered_objects, result, asset_i,
                    attempts, placed, scattered, valid_samples, log, draws,
                    first_result, first_terrain, output_dir,
                    terrain_params, ramp, sample >>

NextCount == CalculateCount

CountSpec == InitCount /\ [][NextCount]_vars

----------------------------------------------------------------------------
(* TerrainConfig: validate_inputs and the four validators *)

\* The text of MAP_SIZE_M is held as the sequence of its characters.  The
\* characters of the model are the digits, the signs, 'x', the blank, '.'
\* and 'a'.
Digits == << "0", "1", "2", "3", "4", "5", "6", "7", "8", "9" >>

IsDigit(c) == \E d \in 1 .. 10 : Digits[d] = c

DigitValue(c) == (CHOOSE d \in 1 .. 10 : Digits[d] = c) - 1

\* str.split(sep)
RECURSIVE Split(_, _)
Split(text, sep) ==
    IF \A i \in 1 .. Len(text) : text[i] # sep
    THEN << text >>
    ELSE LET i == CHOOSE k \in 1 .. Len(text) :
                      text[k] = sep /\ \A j \in 1 .. (k - 1) : text[j] # sep
         IN  << SubSeq(text, 1, i - 1) >> \o Split(SubSeq(text, i + 1, Len(text)), sep)

\* str.strip() of blanks
RECURSIVE Strip(_)
Strip(text) ==
    IF text # << >> /\ text[1] = " " THEN Strip(Tail(text))
    ELSE IF text # << >> /\ text[Len(text)] = " "
         THEN Strip(SubSeq(text, 1, Len(text) - 1))
         ELSE text

RECURSIVE DigitsValue(_)
DigitsValue(ds) ==
    IF ds = << >> THEN 0
    ELSE 10 * DigitsValue(SubSeq(ds, 1, Len(ds) - 1)) + DigitValue(ds[Len(ds)])

\* int(text): blanks around, an optional sign, then one digit or more;
\* anything else raises ValueError
IntOf(text) ==
    LET t == Strip(text)
        signed == t # << >> /\ t[1] \in { "-", "+" }
        ds == IF signed THEN Tail(t) ELSE t
    IN  IF ds = << >> \/ \E i \in 1 .. Len(ds) : ~ IsDigit(ds[i])
        THEN [ ok |-> FALSE, value |-> 0 ]
        ELSE [ ok |-> TRUE,
               value |-> IF signed /\ t[1] = "-" THEN - DigitsValue(ds)
                         ELSE DigitsValue(ds) ]

\* _validate_map_size: the tuple assigned to self.map_size, or the
\* ValueError raised
ValidateMapSize(size_str) ==
    IF \E i \in 1 .. Len(size_str) : size_str[i] = "x"
    THEN LET parts == Split(size_str, "x")
         IN  IF Len(parts) = 2 /\ IntOf(parts[1]).ok /\ IntOf(parts[2]).ok
             THEN [ raised |-> FALSE,
                    map_size |-> << IntOf(parts[1]).value, IntOf(parts[2]).value >> ]
             ELSE [ raised |-> TRUE, map_size |-> << >> ]
    ELSE IF IntOf(size_str).ok
         THEN [ raised |-> FALSE,
                map_size |-> << IntOf(size_str).value, IntOf(size_str).value >> ]
         ELSE [ raised |-> TRUE, map_size |-> << >> ]

\* required_inputs
RequiredInputs ==
    { "PROJECT_NAME", "OUTPUT_DIR", "RNG_SEED", "MAP_SIZE_M", "RENDER_ENGINE",
      "SKY_MODE", "ASSET_CATALOG", "STYLE_PROFILE", "DENSITY_PRESET",
      "MASK_SOURCES", "EXPORT_FORMATS" }

\* (variant: a key whose value is None counts as given)
MissingInputsAbsentOnly(cfg) ==
    { name \in RequiredInputs : name \notin DOMAIN cfg }

\* missing_inputs; cfg.None is the set of the keys whose value is None
MissingInputs(cfg) ==
    { name \in RequiredInputs : name \notin DOMAIN cfg \/ name \in cfg.None }

\* required_fields
RequiredFields == { "file_path", "type", "scale_range", "density_weight" }

\* _validate_asset_catalog raises ValueError: an asset lacks a required field
CatalogLacksField(catalog) ==
    \E i \in 1 .. Len(catalog) : \E field \in RequiredFields :
        field \notin DOMAIN catalog[i]

\* self.<name> = value
SetAttr(obj, name, value) ==
    [ k \in DOMAIN obj \cup { name } |-> IF k = name THEN value ELSE obj[k] ]

(* The inputs *)

SizeTexts ==
    { << "1", "0", "0", "x", "1", "0", "0" >>,
      << "4", "0", "0", "x", "4", "0", "0" >>,
      << "1", "0", "0", "0", "x", "5", "0", "0" >>,
      << "4", "0", "x", "4", "0" >>,
      << "6", "x", "6" >>,
      << " ", "+", "8", "x", "8", " " >>,
      << "4", "0", "0" >>,
      << "0", "x", "1", "0", "0" >>,
      << "-", "5", "x", "1", "0" >>,
      << "0" >>,
      << "-", "7" >>,
      << "1", "0", "x" >>,
      << "x" >>,
      << "1", "x", "2", "x", "3" >>,
      << "a", "x", "a" >>,
      << "1", ".", "5" >>,
      << "4", "0", " ", "0" >>,
      << >> }

\* assets that lack a required field
NoType == [ file_path |-> "latt-bush.glb", scale_range |-> << 8, 12 >>,
            density_weight |-> 10 ]

NoWeight == [ file_path |-> "any.glb", type |-> "prop",
              scale_range |-> << 10, 10 >> ]

CatalogInputs == { << >>, << Bush, Stump >>, << Bush, NoType >>, << NoWeight >> }

StyleNames == PresetNames \cup { "lunar" }

FullDicts ==
    [ PROJECT_NAME : { "ashfall" },
      OUTPUT_DIR : { "out" },
      RNG_SEED : 0 .. (NumSeeds - 1),
      MAP_SIZE_M : SizeTexts,
      RENDER_ENGINE : { "CYCLES" },
      SKY_MODE : { "default" },
      ASSET_CATALOG : CatalogInputs,
      STYLE_PROFILE : StyleNames,
      DENSITY_PRESET : DensityPresets,
      MASK_SOURCES : { << >> },
      EXPORT_FORMATS : { << "glb" >> },
      None : { { } } ]

\* config_dict: a full dict, one with a value None, one with a key missing
ConfigDicts ==
    FullDicts
        \cup { [ d EXCEPT !.None = { name } ] :
                   d \in FullDicts, name \in { "RNG_SEED", "MAP_SIZE_M" } }
        \cup { [ k \in DOMAIN d \ { name } |-> d[k] ] :
                   d \in FullDicts, name \in { "OUTPUT_DIR", "STYLE_PROFILE" } }

\* before TerrainConfig(config_dict): nothing validated, no output
\* directory, no generator
InitConfig ==
    /\ config \in ConfigDicts
    /\ mesh = << >>
    /\ pc = "config_dict"
    /\ run = 0
    /\ terrain_object = FALSE
    /\ self_scattered_objects = << >>
    /\ rng = 0
    /\ scattered_objects = << >>
    /\ result = << >>
    /\ asset_i = 0
    /\ count = 0
    /\ variation = 0
    /\ attempts = 0
    /\ placed = 0
    /\ scattered = << >>
    /\ valid_samples = 0
    /\ log = << >>
    /\ draws = << >>
    /\ first_result = << >>
    /\ first_terrain = FALSE
    /\ output_dir = "absent"
    /\ terrain_params = NoParams
    /\ ramp = { }
    /\ sample = NoSample

\* validate_inputs finds missing inputs: sys.exit(1)
TerrainConfigExit ==
    /\ pc = "config_dict"
    /\ MissingInputs(config) # { }
    /\ pc' = "exit"
    /\ UNCHANGED << config, mesh, run, terrain_object, rng,
                    self_scattered_objects, scattered_objects, result, asset_i,
                    count, variation, attempts, placed, scattered,
                    valid_samples, log, draws, first_result, first_terrain,
                    output_dir, terrain_params, ramp, sample >>

\* _validate_map_size raises ValueError
TerrainConfigInvalidMapSize ==
    /\ pc = "config_dict"
    /\ MissingInputs(config) = { }
    /\ ValidateMapSize(config.MAP_SIZE_M).raised
    /\ pc' = "raised"
    /\ UNCHANGED << config, mesh, run, terrain_object, rng,
                    self_scattered_objects, scattered_objects, result, asset_i,
                    count, variation, attempts, placed, scattered,
                    valid_samples, log, draws, first_result, first_terrain,
                    output_dir, terrain_params, ramp, sample >>

\* self.map_size is set, then _validate_asset_catalog raises ValueError
TerrainConfigInvalidCatalog ==
    /\ pc = "config_dict"
    /\ MissingInputs(config) = { }
    /\ ~ ValidateMapSize(config.MAP_SIZE_M).raised
    /\ CatalogLacksField(config.ASSET_CATALOG)
    /\ config' = SetAttr(config, "map_size",
                         ValidateMapSize(config.MAP_SIZE_M).map_size)
    /\ pc' = "raised"
    /\ UNCHANGED << mesh, run, terrain_object, rng, self_scattered_objects,
                    scattered_objects, result, asset_i, count, variation,
                    attempts, placed, scattered, valid_samples, log, draws,
                    first_result, first_terrain, output_dir, terrain_params,
                    ramp, sample >>

\* self.map_size and self.asset_catalog are set, then _get_style_preset
\* raises ValueError
TerrainConfigUnknownStyle ==
    /\ pc = "config_dict"
    /\ MissingInputs(config) = { }
    /\ ~ ValidateMapSize(config.MAP_SIZE_M).raised
    /\ ~ CatalogLacksField(config.ASSET_CATALOG)
    /\ config.STYLE_PROFILE \notin PresetNames
    /\ config' = SetAttr(SetAttr(config, "map_size",
                                 ValidateMapSize(config.MAP_SIZE_M).map_size),
                         "asset_catalog", config.ASSET_CATALOG)
    /\ pc' = "raised"
    /\ UNCHANGED << mesh, run, terrain_object, rng, self_scattered_objects,
                    scattered_objects, result, asset_i, count, variation,
                    attempts, placed, scattered, valid_samples, log, draws,
                    first_result, first_terrain, output_dir, terrain_params,
                    ramp, sample >>

\* TerrainConfig(config_dict) returns: the four validators have set
\* map_size, asset_catalog and style_profile, and _validate_paths has
\* created the output directory
TerrainConfig ==
    /\ pc = "config_dict"
    /\ MissingInputs(config) = { }
    /\ ~ ValidateMapSize(config.MAP_SIZE_M).raised
    /\ ~ CatalogLacksField(config.ASSET_CATALOG)
    /\ config.STYLE_PROFILE \in PresetNames
    /\ config' = SetAttr(SetAttr(SetAttr(config, "map_size",
                                         ValidateMapSize(config.MAP_SIZE_M).map_size),
                                 "asset_catalog", config.ASSET_CATALOG),
                         "style_profile", GetStylePreset(config.STYLE_PROFILE))
    /\ output_dir' = "created"
    /\ pc' = "configured"
    /\ UNCHANGED << mesh, run, terrain_object, rng, self_scattered_objects,
                    scattered_objects, result, asset_i, count, variation,
                    attempts, placed, scattered, valid_samples, log, draws,
                    first_result, first_terrain, terrain_params, ramp, sample >>

\* VolcanicTerrainGenerator(config)
NewGenerator ==
    /\ pc = "configured"
    /\ run' = run + 1
    /\ terrain_object' = FALSE
    /\ self_scattered_objects' = << >>
    /\ rng' = Seed(config.RNG_SEED)
    /\ pc' = "constructed"
    /\ UNCHANGED << config, mesh, scattered_objects, result, asset_i, count,
                    variation, attempts, placed, scattered, valid_samples, log,
                    draws, first_result, first_terrain, output_dir,
                    terrain_params, ramp, sample >>

\* generate_terrain raises KeyError in _create_volcanic_materials: the
\* terrain object and its parameters are set, the ramp is left as it was
\* when the lookup failed
GenerateTerrainKeyError ==
    /\ pc = "constructed"
    /\ MissingStyleKey(config.style_profile) # "none"
    /\ terrain_object' = TRUE
    /\ terrain_params' = [ height_scale |-> HeightScale(config.DENSITY_PRESET,
                                                         config.map_size),
                           crater_count |-> CraterCount(config.DENSITY_PRESET,
                                                         config.map_size) ]
    /\ ramp' = RampAtKeyError(config.style_profile,
                              MissingStyleKey(config.style_profile))
    /\ pc' = "key_error"
    /\ UNCHANGED << config, mesh, run, rng, self_scattered_objects,
                    scattered_objects, result, asset_i, count, variation,
                    attempts, placed, scattered, valid_samples, log, draws,
                    first_result, first_terrain, output_dir, sample >>

NextConfig ==
    \/ TerrainConfigExit
    \/ TerrainConfigInvalidMapSize
    \/ TerrainConfigInvalidCatalog
    \/ TerrainConfigUnknownStyle
    \/ TerrainConfig
    \/ NewGenerator
    \/ GenerateTerrain
    \/ GenerateTerrainKeyError

ConfigSpec == InitConfig /\ [][NextConfig]_vars

----------------------------------------------------------------------------
(* Properties *)

\* every object scatter_assets holds at this point, in list order
Emitted ==
    IF pc = "while" THEN scattered_objects \o scattered
    ELSE IF pc = "returned" THEN result
    ELSE scattered_objects

AssetOf(i) == config.asset_catalog[i]

\* C1: in every state of the loop, and in what every call of
\* _scatter_single_asset_type returned, 0 <= placed <= count and the list
\* holds exactly `placed` objects.
C1_CountBound ==
    /\ pc = "while" =>
           /\ 0 <= placed
           /\ placed <= count
           /\ Len(scattered) = placed
    /\ \A i \in 1 .. Len(log) :
           /\ 0 <= log[i].placed
           /\ log[i].placed <= log[i].count
           /\ Len(log[i].returned) = log[i].placed

\* a call that placed some objects but fewer than its count
C1_Witness ==
    \E i \in 1 .. Len(log) :
        /\ log[i].placed >= 2
        /\ log[i].placed < log[i].count
        /\ Len(log[i].returned) = log[i].placed

\* C2: every object emitted sits on a sample whose height is within its own
\* asset's height_range (both ends included) and whose slope is at most its
\* asset's slope_max.
C2_PlacementValid ==
    \A i \in 1 .. Len(Emitted) :
        LET obj == Emitted[i]
            asset == AssetOf(obj.asset)
            lo == IF "height_range" \in DOMAIN asset
                  THEN asset.height_range[1] ELSE 0
            hi == IF "height_range" \in DOMAIN asset
                  THEN asset.height_range[2] ELSE 1000
            steepest == IF "slope_max" \in DOMAIN asset
                        THEN asset.slope_max ELSE 45
        IN  /\ lo <= obj.z
            /\ obj.z <= hi
            /\ obj.slope <= steepest

\* a finished run that placed an asset with a narrow height range and a
\* slope limit on a mesh that also made it reject samples
C2_Witness ==
    /\ pc = "returned"
    /\ \E i \in 1 .. Len(result) :
           /\ AssetOf(result[i].asset) = Bush
           /\ result[i].slope > 0
    /\ \E j \in 1 .. Len(log) :
           /\ AssetOf(log[j].asset) = Bush
           /\ log[j].valid_samples < log[j].attempts

\* every position the loop can draw on this map passes the rules of asset
AlwaysValid(m, map_size, asset) ==
    \A kx, ky \in 0 .. (RandMod - 1) :
        IsValidPlacement(SampleTerrainProperties(m, Position(map_size[1], kx),
                                                 Position(map_size[2], ky)),
                         asset)

\* C3: a loop whose every sample passed the rules of an asset that imports
\* has placed as many objects as it made attempts, and returns with
\* placed = count after exactly count attempts; so does every loop on a
\* terrain all of whose samples pass.
C3_AllValidPlacesAll ==
    /\ (pc = "while" /\ valid_samples = attempts
            /\ FileStatus(CurrentAsset.file_path) = "ok") => placed = attempts
    /\ \A i \in 1 .. Len(log) :
           (log[i].kind = "placed" /\ FileStatus(AssetOf(log[i].asset).file_path) = "ok") =>
               \/ log[i].placed = log[i].count /\ log[i].attempts = log[i].count
               \/ /\ log[i].valid_samples < log[i].attempts
                  /\ ~ AlwaysValid(mesh, config.map_size, AssetOf(log[i].asset))

\* a loop on the flat fine grid, all of whose samples pass, that placed its
\* whole count of at least 3
C3_Witness ==
    \E i \in 1 .. Len(log) :
        /\ log[i].kind = "placed"
        /\ log[i].count >= 3
        /\ log[i].placed = log[i].count
        /\ log[i].attempts = log[i].count
        /\ AlwaysValid(mesh, config.map_size, AssetOf(log[i].asset))

\* C4: the attempt counter never exceeds 3 x count; a loop that has placed
\* count objects or used 3 x count attempts makes no further attempt; every
\* iteration counts one attempt; and a loop that returned with fewer than
\* count objects made exactly 3 x count attempts.
C4_AttemptBudget ==
    /\ [](/\ pc = "while" => attempts <= ATTEMPT_FACTOR * count
          /\ \A i \in 1 .. Len(log) :
                 /\ log[i].attempts <= ATTEMPT_FACTOR * log[i].count
                 /\ log[i].kind = "placed" =>
                        \/ log[i].placed = log[i].count
                        \/ log[i].attempts = ATTEMPT_FACTOR * log[i].count)
    /\ [][(pc = "while" /\ (placed = count \/ attempts = ATTEMPT_FACTOR * count))
              => pc' = "for"]_vars
    /\ [][(pc = "while" /\ pc' = "while") => attempts' = attempts + 1]_vars

\* a loop that used up its budget of at least 6 attempts, some of them placing
C4_Witness ==
    \E i \in 1 .. Len(log) :
        /\ log[i].count >= 2
        /\ log[i].placed >= 1
        /\ log[i].placed < log[i].count
        /\ log[i].attempts = ATTEMPT_FACTOR * log[i].count

\* what the claim compares of a placement: asset, position, yaw and scale
Placement(obj) ==
    [ asset |-> obj.asset, x |-> obj.x, y |-> obj.y, z |-> obj.z,
      yaw |-> obj.yaw, scale |-> obj.scale ]

Placements(list) == [ i \in 1 .. Len(list) |-> Placement(list[i]) ]

\* the generator state after n further calls of random()
RECURSIVE Advance(_, _)
Advance(state, n) == IF n = 0 THEN state ELSE Advance(NextRand(state), n - 1)

\* C5: a second run from the same configuration on the same terrain returns
\* the same sequence of placements as the first; and between constructions
\* the generator state only moves forward, by one step per draw made.
C5_Determinism ==
    /\ []((pc = "returned" /\ run >= 2 /\ first_terrain = terrain_object) =>
              Placements(result) = Placements(first_result))
    /\ [][pc' # "constructed" =>
              /\ Len(draws') >= Len(draws)
              /\ rng' = Advance(rng, Len(draws') - Len(draws))]_vars

\* a second run on a terrain that returned at least 3 placements, as did the first
C5_Witness ==
    /\ pc = "returned"
    /\ run = 2
    /\ terrain_object
    /\ first_terrain
    /\ Len(result) >= 3
    /\ Len(first_result) >= 3
    /\ Len(draws) >= 10

\* a state in which _calculate_asset_count has just returned `count` for
\* CurrentAsset from the draw `variation`
CountCalculated == pc \in { "calculated", "while" }

\* 15 x density_multiplier x area x density_weight, times 2 * 10
ClaimedProductTimes20 ==
    BASE_PER_AREA
        * (CASE config.DENSITY_PRESET = "Low" -> 1
             [] config.DENSITY_PRESET = "Med" -> 2
             [] config.DENSITY_PRESET = "High" -> 4)
        * (config.map_size[1] * config.map_size[2])
        * CurrentAsset.density_weight

\* variation = 0.8 + 0.4 * k / RandMod, times 10 * RandMod
VariationTimes10Mod == VAR_LO_TENTHS * RandMod + (VAR_HI_TENTHS - VAR_LO_TENTHS) * variation

\* C6 as stated: count = max(1, round(15 x density_multiplier x area_factor x
\* density_weight x variation)), area_factor = area / 10000.  (The quotient
\* is reduced by 20: the product is divisible by 5, the variation by 4.)
C6_CountIsRounded ==
    CountCalculated =>
        LET n == (ClaimedProductTimes20 \div 5) * (VariationTimes10Mod \div 4)
            d == 10 * AREA_REF * RandMod
            q == n \div d
            r == n % d
            rounded == IF 2 * r > d \/ (2 * r = d /\ q % 2 = 1) THEN q + 1 ELSE q
        IN  count = (IF rounded >= 1 THEN rounded ELSE 1)

\* C6 amended: count = max(1, int(max(1, int(15 x density_multiplier x
\* area_factor x density_weight)) x variation)), int truncating toward zero.
C6_CountIsTruncatedTwice ==
    CountCalculated =>
        LET n1 == ClaimedProductTimes20
            d1 == 2 * 10 * AREA_REF
            t1 == IF n1 >= 0 THEN n1 \div d1 ELSE -((-n1) \div d1)
            base == IF t1 >= 1 THEN t1 ELSE 1
            t2 == (base * VariationTimes10Mod) \div (10 * RandMod)
        IN  count = (IF t2 >= 1 THEN t2 ELSE 1)

\* a count of at least 2 that is not the rounded product
C6_Witness ==
    /\ CountCalculated
    /\ count >= 2
    /\ ~ C6_CountIsRounded

\* C7: on a 100 x 100 map with preset Med, an asset of density_weight 1.0
\* gets a count in 12 .. 18, whatever the variation.
C7_ScenarioCount ==
    (/\ CountCalculated
     /\ config.map_size = << 100, 100 >>
     /\ config.DENSITY_PRESET = "Med"
     /\ CurrentAsset.density_weight = 10) =>
        (count >= 12 /\ count <= 18)

\* the scenario with the largest draw: a count above 15
C7_Witness ==
    /\ CountCalculated
    /\ config.map_size = << 100, 100 >>
    /\ config.DENSITY_PRESET = "Med"
    /\ CurrentAsset.density_weight = 10
    /\ variation = RandMod - 1
    /\ count >= 17

\* the for loop has called _scatter_single_asset_type once for every
\* catalog entry, in catalog order
AllEntriesProcessed ==
    /\ Len(log) = Len(config.asset_catalog)
    /\ \A i \in 1 .. Len(log) : log[i].asset = i

\* C8: on a mesh without a vertex of slope 0, the loop of an asset with
\* slope_max 0 (whose file exists) returns with placed = 0 after exactly
\* 3 x count attempts, and scatter_assets returns having processed every
\* catalog entry.
C8_SlopeZeroUnderPlaces ==
    /\ \A i \in 1 .. Len(log) :
           (/\ log[i].kind = "placed"
            /\ "slope_max" \in DOMAIN AssetOf(log[i].asset)
            /\ AssetOf(log[i].asset).slope_max = 0
            /\ \A v \in 1 .. Len(mesh) : mesh[v].normal > 0) =>
               /\ log[i].placed = 0
               /\ log[i].returned = << >>
               /\ log[i].attempts = ATTEMPT_FACTOR * log[i].count
    /\ (pc = "returned" /\ terrain_object) => AllEntriesProcessed

\* a finished run on a steep mesh whose first asset has slope_max 0 and a
\* budget of at least 6 attempts, and whose next asset was placed
C8_Witness ==
    /\ pc = "returned"
    /\ Len(mesh) > 1
    /\ \A v \in 1 .. Len(mesh) : mesh[v].normal > 0
    /\ Len(log) = 2
    /\ AssetOf(1) = FlatOnly
    /\ log[1].attempts >= 6
    /\ log[1].placed = 0
    /\ log[2].placed >= 1
    /\ Len(result) = log[2].placed

\* the file behind a catalog entry cannot be resolved
Unresolvable(asset) == FileStatus(asset.file_path) \in { "missing", "raises", "empty" }

\* C9: a catalog entry whose file is missing, or whose import fails every
\* time, contributes no placement (a missing file not even an attempt), and
\* scatter_assets still processes every catalog entry and returns.
C9_UnresolvableSkipped ==
    /\ \A i \in 1 .. Len(log) :
           Unresolvable(AssetOf(log[i].asset)) =>
               /\ log[i].placed = 0
               /\ log[i].returned = << >>
               /\ FileStatus(AssetOf(log[i].asset).file_path) = "missing" =>
                      (log[i].kind = "not_found" /\ log[i].attempts = 0)
    /\ \A i \in 1 .. Len(Emitted) : ~ Unresolvable(AssetOf(Emitted[i].asset))
    /\ (pc = "while" /\ Unresolvable(CurrentAsset)) => placed = 0
    /\ (pc = "returned" /\ terrain_object) => AllEntriesProcessed

\* a finished run over a missing file, a file whose import was tried on
\* valid samples and failed, and a third asset that was placed
C9_Witness ==
    /\ pc = "returned"
    /\ Len(log) = 3
    /\ log[1].kind = "not_found"
    /\ FileStatus(AssetOf(2).file_path) = "raises"
    /\ log[2].valid_samples >= 2
    /\ log[2].placed = 0
    /\ log[3].placed >= 1
    /\ \A i \in 1 .. Len(result) : result[i].asset = 3

RECURSIVE Flatten(_)
Flatten(lists) ==
    IF lists = << >> THEN << >> ELSE Head(lists) \o Flatten(Tail(lists))

\* object a comes before object b: an earlier catalog entry, or the same
\* entry and an earlier attempt
Before(a, b) ==
    \/ a.asset < b.asset
    \/ a.asset = b.asset /\ a.attempt < b.attempt

\* C10: at every point the objects held are ordered by catalog entry and,
\* within an entry, by attempt; and the list returned is the concatenation,
\* in catalog order, of the lists the per-asset calls returned.
C10_CatalogThenAttemptOrder ==
    /\ \A i \in 1 .. (Len(Emitted) - 1) : Before(Emitted[i], Emitted[i + 1])
    /\ (pc = "returned" /\ terrain_object) =>
           /\ AllEntriesProcessed
           /\ result = Flatten([ i \in 1 .. Len(log) |-> log[i].returned ])

\* a returned list with at least two objects of each of two catalog entries
C10_Witness ==
    /\ pc = "returned"
    /\ Len(log) = 2
    /\ log[1].placed >= 2
    /\ log[2].placed >= 2
    /\ log[1].attempts > log[1].placed
    /\ Len(result) = log[1].placed + log[2].placed

----------------------------------------------------------------------------
(* Configuration errors *)

\* texts of MAP_SIZE_M that name a dimension which is zero or negative
NonPositiveTexts ==
    { << "0", "x", "1", "0", "0" >>, << "-", "5", "x", "1", "0" >>,
      << "0" >>, << "-", "7" >> }

\* C11: a map-size text with a zero or negative dimension ('0x100',
\* '-5x10') is a fatal configuration error: the construction of
\* TerrainConfig fails and no map_size is accepted for it.
C11_NonPositiveSizeIsFatal ==
    ("MAP_SIZE_M" \in DOMAIN config /\ config.MAP_SIZE_M \in NonPositiveTexts)
        => /\ "map_size" \notin DOMAIN config
           /\ pc \in { "config_dict", "exit", "raised" }

\* texts of MAP_SIZE_M that are neither 'WIDTHxHEIGHT' nor one integer
MalformedTexts ==
    { << "1", "0", "x" >>, << "x" >>, << "1", "x", "2", "x", "3" >>,
      << "a", "x", "a" >>, << "1", ".", "5" >>, << "4", "0", " ", "0" >>, << >> }

\* the failures the claim lists, read off the config dict
ConfigFailure ==
    \/ \E name \in RequiredInputs : name \notin DOMAIN config \/ name \in config.None
    \/ config.MAP_SIZE_M \in MalformedTexts
    \/ \E i \in 1 .. Len(config.ASSET_CATALOG) :
           \E field \in { "file_path", "type", "scale_range", "density_weight" } :
               field \notin DOMAIN config.ASSET_CATALOG[i]
    \/ config.STYLE_PROFILE \notin { "volcanic_ashfall", "realistic_volcanic" }

\* C12: a configuration failure (a required input missing or None, a
\* malformed map-size text, a catalog entry lacking a required field, an
\* unknown style preset name) aborts the construction of TerrainConfig
\* before the output directory is created and before a generator is
\* constructed or anything is generated or scattered.
C12_FailureBeforeOutput ==
    ConfigFailure
        => /\ output_dir = "absent"
           /\ run = 0
           /\ ~ terrain_object
           /\ self_scattered_objects = << >>
           /\ result = << >>
           /\ pc \in { "config_dict", "exit", "raised" }

\* the style preset is unknown, after the map size and the catalog passed
C12_Witness ==
    /\ pc = "raised"
    /\ "asset_catalog" \in DOMAIN config
    /\ config.STYLE_PROFILE = "lunar"
    /\ output_dir = "absent"

----------------------------------------------------------------------------
(* Placement rules *)

Abs(n) == IF n >= 0 THEN n ELSE - n

\* the asset whose while loop is running has tried a position
Attempted == pc = "while" /\ attempts > 0 /\ sample.kind = "sampled"

\* C13: the sample of an attempt is accepted by _is_valid_placement if and
\* only if height_range.min <= height <= height_range.max, slope <= slope_max
\* and distance_to_nearest <= 5.0; an asset without height_range uses
\* [0, 1000], one without slope_max uses 45.
C13_AcceptedIff ==
    Attempted =>
        LET asset == config.asset_catalog[asset_i]
            lo == IF "height_range" \in DOMAIN asset THEN asset.height_range[1] ELSE 0
            hi == IF "height_range" \in DOMAIN asset THEN asset.height_range[2] ELSE 1000
            steepest == IF "slope_max" \in DOMAIN asset THEN asset.slope_max ELSE 45
            d == sample.data
        IN  sample.valid <=> /\ lo <= d.height
                             /\ d.height <= hi
                             /\ d.slope <= steepest
                             /\ d.vertex # 0
                             /\ d.dist2 <= (5 * Unit) * (5 * Unit)

\* an asset that relies on both defaults has a sample accepted on the slope
\* limit, after one of its samples was refused
C13_Witness ==
    /\ Attempted
    /\ config.asset_catalog[asset_i] = Stump
    /\ sample.valid
    /\ sample.data.slope = 45
    /\ valid_samples < attempts

----------------------------------------------------------------------------
(* Order of the random draws *)

\* the draws a step adds
NewDraws == SubSeq(draws', Len(draws) + 1, Len(draws'))

\* the step that starts the next asset of the catalog
StartsAsset == pc = "for" /\ (pc' = "while" \/ asset_i' = asset_i + 1)

\* the step that makes one attempt
MakesAttempt == pc = "while" /\ attempts' = attempts + 1

\* every step takes as many values from the generator as it adds draws
DrawsAreTaken == run' = run => rng' = Advance(rng, Len(draws') - Len(draws))

\* one count draw when an asset starts, none between the attempts
CountDrawnOnce ==
    /\ StartsAsset => NewDraws = << "count" >>
    /\ (run' = run /\ ~ StartsAsset /\ ~ MakesAttempt) => draws' = draws

\* C14 as stated: one count draw per asset, before its position draws and
\* after the draws of the previous asset, then for each attempt the draws
\* x, y, yaw, scale.
C14_FourDrawsPerAttempt ==
    [][ /\ DrawsAreTaken
        /\ CountDrawnOnce
        /\ MakesAttempt => NewDraws = << "x", "y", "yaw", "scale" >> ]_vars

\* C14: one count draw per asset, before its position draws and after the
\* draws of the previous asset; each attempt draws x then y, and draws yaw
\* then scale after them only when it places an object; the count is never
\* drawn per attempt.
C14_DrawOrder ==
    [][ /\ DrawsAreTaken
        /\ CountDrawnOnce
        /\ MakesAttempt =>
               NewDraws = IF placed' = placed + 1
                          THEN << "x", "y", "yaw", "scale" >>
                          ELSE << "x", "y" >> ]_vars

\* the second asset of the catalog has placed an object after a refused
\* attempt of its own
C14_Witness ==
    /\ pc = "while"
    /\ asset_i = 2
    /\ placed > 0
    /\ attempts > placed
    /\ sample.kind = "sampled" /\ ~ sample.valid

----------------------------------------------------------------------------
(* The terrain query *)

\* C15: every sample the terrain query returns carries an
\* elevation_fraction in [0, 1], which is 0 at the lowest point of the
\* surface and 1 at the highest.
C15_ElevationFraction ==
    sample.kind = "sampled" =>
        /\ "elevation_fraction" \in DOMAIN sample.data
        /\ sample.data.elevation_fraction >= 0
        /\ sample.data.elevation_fraction <= 1
        /\ (\A j \in 1 .. Len(mesh) : sample.data.height <= mesh[j].z)
               => sample.data.elevation_fraction = 0
        /\ (\A j \in 1 .. Len(mesh) : sample.data.height >= mesh[j].z)
               => sample.data.elevation_fraction = 1

\* C16: for a positive map size every position the scatter loop tries, and
\* so every object it places, has |x| <= size_x/2 - 5 and |y| <= size_y/2 - 5,
\* maps with a dimension below 10 included.
C16_PositionsWithinMargin ==
    (config.map_size[1] > 0 /\ config.map_size[2] > 0) =>
        /\ sample.kind = "sampled" =>
               /\ 2 * Abs(sample.x) <= (config.map_size[1] - 10) * Unit
               /\ 2 * Abs(sample.y) <= (config.map_size[2] - 10) * Unit
        /\ \A i \in 1 .. Len(Emitted) :
               /\ 2 * Abs(Emitted[i].x) <= (config.map_size[1] - 10) * Unit
               /\ 2 * Abs(Emitted[i].y) <= (config.map_size[2] - 10) * Unit

\* squared horizontal distance of vertex j to the position last tried
DistanceToSample(j) ==
    (mesh[j].x * RandMod - sample.x) * (mesh[j].x * RandMod - sample.x)
        + (mesh[j].y * RandMod - sample.y) * (mesh[j].y * RandMod - sample.y)

\* C17: on a terrain with at least one vertex the query at (x, y) returns
\* the height and the normal of a vertex whose horizontal distance to (x, y)
\* is minimal, distance_to_nearest is that distance, and among equidistant
\* vertices the first in vertex order is used.
C17_NearestVertex ==
    (sample.kind = "sampled" /\ Len(mesh) > 0) =>
        LET v == sample.data.vertex
        IN  /\ v \in 1 .. Len(mesh)
            /\ \A j \in 1 .. Len(mesh) : DistanceToSample(v) <= DistanceToSample(j)
            /\ \A j \in 1 .. (v - 1) : DistanceToSample(j) > DistanceToSample(v)
            /\ sample.data.height = mesh[v].z
            /\ sample.data.normal = mesh[v].normal
            /\ sample.data.dist2 = DistanceToSample(v)

\* a position with a second vertex as near as the one used
C17_Witness ==
    /\ sample.kind = "sampled"
    /\ \E j \in 1 .. Len(mesh) :
           /\ j > sample.data.vertex
           /\ DistanceToSample(j) = DistanceToSample(sample.data.vertex)

----------------------------------------------------------------------------
(* Terrain parameters and material *)

\* generate_terrain has computed the parameters
ParamsComputed == pc \in { "terrain", "key_error" }

\* C18: the height scale equals max(10, area x 0.00005 x density_multiplier)
\* with the multipliers Low 0.5, Med 1.0, High 2.0, so it is never below 10;
\* the crater count is never below 1.
C18_HeightScale ==
    ParamsComputed =>
        LET twice == IF config.DENSITY_PRESET = "Low" THEN 1
                     ELSE IF config.DENSITY_PRESET = "Med" THEN 2 ELSE 4
            scaled == config.map_size[1] * config.map_size[2] * twice
            h == terrain_params.height_scale
        IN  /\ h >= 10 * 40000
            /\ h >= scaled
            /\ h = 10 * 40000 \/ h = scaled
            /\ terrain_params.crater_count >= 1

\* a map small enough for the floor of 10 to apply
C18_Witness ==
    /\ pc = "terrain"
    /\ config.map_size = << 40, 40 >>
    /\ terrain_params.height_scale = 10 * 40000
    /\ terrain_params.crater_count = 1

\* C19: once the colour ramp is configured its stop positions are strictly
\* increasing in [0, 1], the first is 0 and the last is 1, and the stops
\* carry in order lava_rock, weathered_rock, ash_deposits and the top colour.
C19_RampStrictlyIncreasing ==
    pc = "terrain" =>
        \A e \in ramp :
            LET colors == config.style_profile.base_colors
            IN  /\ Len(e) = 4
                /\ \A i \in 1 .. 3 : e[i].position < e[i + 1].position
                /\ e[1].position = 0
                /\ e[4].position = 100
                /\ e[1].color = colors.lava_rock
                /\ e[2].color = colors.weathered_rock
                /\ e[3].color = colors.ash_deposits
                /\ e[4].color = IF "fresh_lava" \in DOMAIN colors
                                THEN colors.fresh_lava ELSE colors.lava_rock

\* C20: the profile of every accepted preset name holds every key that
\* _create_volcanic_materials reads unconditionally, so a configuration
\* that passed validation never fails with a missing key during terrain
\* generation.
C20_PresetsHaveEveryKey ==
    /\ pc # "key_error"
    /\ "style_profile" \in DOMAIN config =>
           LET style == config.style_profile
           IN  /\ { "base_colors", "roughness_ranges", "height_zones",
                    "wetness_logic" } \subseteq DOMAIN style
               /\ { "lava_rock", "weathered_rock", "ash_deposits" }
                      \subseteq DOMAIN style.base_colors
               /\ { "smooth_lava", "rough_rock" } \subseteq DOMAIN style.roughness_ranges
               /\ "low_areas" \in DOMAIN style.wetness_logic
                      => "peaks" \in DOMAIN style.wetness_logic

----------------------------------------------------------------------------
(* The base plane, and the names of the placed objects *)

\* the vertices are the four corners of the plane of a square map of side
\* 10 or more
OnBasePlane ==
    /\ config.map_size[1] = config.map_size[2]
    /\ config.map_size[1] >= 10
    /\ mesh = BasePlane(config.map_size)

\* C21: when the vertices of the terrain are only the four corners of the
\* base plane of a square map of side s >= 10, every position tried has
\* distance_to_nearest > 5.0, every attempt is refused, every loop uses up
\* its attempt budget and scatter_assets places nothing.
C21_BasePlaneRejectsAll ==
    OnBasePlane =>
        /\ sample.kind = "sampled" =>
               /\ sample.data.dist2 > (5 * Unit) * (5 * Unit)
               /\ ~ sample.valid
        /\ placed = 0
        /\ Emitted = << >>
        /\ \A j \in 1 .. Len(log) :
               /\ log[j].placed = 0
               /\ log[j].valid_samples = 0
               /\ log[j].kind = "placed" => log[j].attempts = 3 * log[j].count

\* a run on the base plane has gone through two assets, tried positions
\* for both and returned nothing
C21_Witness ==
    /\ OnBasePlane
    /\ pc = "returned"
    /\ terrain_object
    /\ Len(log) = 2
    /\ log[1].attempts > 0
    /\ log[2].attempts > 0
    /\ result = << >>

\* C22: within one run of scatter_assets the index written into the name
\* of a placed object equals the number of objects placed before it in
\* that run, so no two objects of the run share an index.
C22_NameIndexCounts ==
    \A i \in 1 .. Len(Emitted) : Emitted[i].name_index = i - 1

====
